---- MODULE Spec2Model ----
(***************************************************************************)
(* Tagged chain driver (tools/test-framework/src/chain/tagged.rs).         *)
(*                                                                         *)
(* The trait TaggedChainDriverExt<Chain> is implemented for                *)
(* MonoTagged<Chain, &ChainDriver>.  Every method unwraps its tagged       *)
(* arguments and calls the untagged collaborator (ChainDriver methods, or  *)
(* the free function chain::cli::query::query_recipient_transactions).     *)
(*                                                                         *)
(* A method is modelled as an operator from the world before the call to   *)
(* an outcome [world, ret, calls]: the world after the call, the value     *)
(* returned and the collaborator calls made, in order.  The world holds    *)
(* the drivers, the chains they manage and, per collaborator call          *)
(* received, its operation and receiver.  The collaborators are not part   *)
(* of tagged.rs; their behaviour is modelled from their contract.          *)
(***************************************************************************)
EXTENDS Integers, Sequences, FiniteSets, TLC

VARIABLES world, taggedLog, last

vars == <<world, taggedLog, last>>

\* Number of tagged calls a behaviour issues.
MaxCalls == 2

-----------------------------------------------------------------------------
(* Values of the test setup *)

Markers == {"A", "B"}

DriverRefs == {"driver0", "driver1"}

ChainIds == {"ibc-0", "ibc-1"}

Denoms == {"samoleans", "ibc/27A6"}

\* struct WalletAddress(pub String): a tuple struct with one field, `.0`.
WalletAddress(s) == <<s>>

AddressStrings == {"cosmos1user1", "cosmos1user2"}

WalletAddresses == {WalletAddress(s) : s \in AddressStrings}

Wallets ==
    { [id |-> "user1", address |-> WalletAddress("cosmos1user1"), key |-> "key1"],
      [id |-> "user2", address |-> WalletAddress("cosmos1user2"), key |-> "key2"] }

Targets == {0, 100}

\* Messages (prost Any): token transfers to a receiver on a destination chain.
Transfer(dst, receiver, denom, amount) ==
    [dst |-> dst, receiver |-> receiver, denom |-> denom, amount |-> amount]

MsgToB == Transfer("ibc-1", "cosmos1user2", "ibc/27A6", 100)

MsgToA == Transfer("ibc-0", "cosmos1user1", "samoleans", 100)

MsgLists == { <<MsgToB>>, <<MsgToB, MsgToA>>, <<MsgToA, MsgToB>> }

\* The address each chain's node listens on.
NodeRpc ==
    [c \in ChainIds |-> IF c = "ibc-0" THEN "tcp://localhost:26657"
                                       ELSE "tcp://localhost:26557"]

InstalledCommands == {"gaiad", "simd"}

\* The two drivers of the setup: one per chain.
InitDrivers ==
    [d \in DriverRefs |->
        IF d = "driver0"
        THEN [chain_id |-> "ibc-0", command_path |-> "gaiad", rpc_port |-> 26657,
              tx_config |-> [chain_id |-> "ibc-0", max_msg_num |-> 30]]
        ELSE [chain_id |-> "ibc-1", command_path |-> "simd", rpc_port |-> 26557,
              tx_config |-> [chain_id |-> "ibc-1", max_msg_num |-> 10]]]

-----------------------------------------------------------------------------
(* Result<T, Error> *)

Ok(v) == [ok |-> TRUE, val |-> v]

Err(e) == [ok |-> FALSE, err |-> e]

Unit == "()"

-----------------------------------------------------------------------------
(* types::tagged::MonoTagged *)

MonoTagged_new(tag, v) == [tag |-> tag, value |-> v]

value(tagged) == tagged.value

\* The closure f is a function on the payloads.
map_ref(tagged, f) == [tag |-> tagged.tag, value |-> f[tagged.value]]

-----------------------------------------------------------------------------
(* Collaborators: ChainDriver and chain::cli::query *)

\* A collaborator call: the world with the call's operation and receiver logged,
\* what the call returned, and the call itself.
Received(w, receiver, call) ==
    [world |-> [w EXCEPT !.log = Append(@, <<call.op, receiver>>)],
     ret   |-> call.ret,
     calls |-> <<call>>]

rpc_listen_address(driver) == "tcp://localhost:" \o ToString(driver.rpc_port)

Balance(w, chain, address, denom) == w.ledger[chain][address][denom]

ChainDriver_send_tx(w, d, wallet, messages) ==
    LET chain == w.drivers[d].chain_id
        ret == IF w.up[chain] THEN Ok(Unit) ELSE Err("tx: node unreachable")
        sent == IF ret.ok THEN [w EXCEPT !.pending = @ \o messages] ELSE w
    IN Received(sent, d, [op |-> "send_tx", driver |-> d,
                          args |-> <<wallet, messages>>, ret |-> ret])

ChainDriver_query_balance(w, d, wallet_id, denom) ==
    LET chain == w.drivers[d].chain_id
        ret == IF w.up[chain] THEN Ok(Balance(w, chain, wallet_id[1], denom))
                              ELSE Err("query: node unreachable")
    IN Received(w, d, [op |-> "query_balance", driver |-> d,
                       args |-> <<wallet_id, denom>>, ret |-> ret])

ChainDriver_assert_eventual_wallet_amount(w, d, user, target_amount, denom) ==
    LET chain == w.drivers[d].chain_id
        ret == IF ~w.up[chain] THEN Err("retry: node unreachable")
               ELSE IF Balance(w, chain, user[1], denom) = target_amount
                    THEN Ok(Unit)
                    ELSE Err("retry: balance does not match the target amount")
    IN Received(w, d, [op |-> "assert_eventual_wallet_amount", driver |-> d,
                       args |-> <<user, target_amount, denom>>, ret |-> ret])

cli_query_recipient_transactions(w, chain_id, command_path, rpc, recipient) ==
    LET nodes == {c \in ChainIds : NodeRpc[c] = rpc /\ w.up[c]}
        ret == IF command_path \notin InstalledCommands THEN Err("exec: no such command")
               ELSE IF nodes = {} THEN Err("exec: node unreachable")
               ELSE LET c == CHOOSE n \in nodes : TRUE
                    IN Ok([txs |-> SelectSeq(w.history[c],
                                             LAMBDA m : m.receiver = recipient)])
    IN Received(w, rpc, [op |-> "query_recipient_transactions",
                         args |-> <<chain_id, command_path, rpc, recipient>>,
                         ret |-> ret])

-----------------------------------------------------------------------------
(* Faulty variants of the tagged methods: each breaks one of the properties  *)
(* stated at the end of the module.                                          *)

\* chain_id() projecting another field of the driver.
chain_id_wrong_field(w, self) ==
    [world |-> w, calls |-> <<>>,
     ret |-> map_ref(self, [val \in DriverRefs |-> w.drivers[val].command_path])]

\* tx_config() asking the driver's node before projecting.
tx_config_querying(w, self) ==
    LET asked == ChainDriver_query_balance(
                     w, value(self), WalletAddress("cosmos1user1"), "samoleans")
    IN [asked EXCEPT !.ret = map_ref(self, [val \in DriverRefs |-> w.drivers[val].tx_config])]

\* send_tx() forwarding only the first message.
send_tx_first_message(w, self, wallet, messages) ==
    ChainDriver_send_tx(w, value(self), value(wallet), <<Head(messages)>>)

\* send_tx() calling the driver a second time after a failure.
send_tx_retrying(w, self, wallet, messages) ==
    LET first == ChainDriver_send_tx(w, value(self), value(wallet), messages)
        second == ChainDriver_send_tx(first.world, value(self), value(wallet), messages)
    IN IF first.ret.ok THEN first
       ELSE [second EXCEPT !.calls = first.calls \o @]

\* query_balance() turning the driver's failure into a balance of 0.
query_balance_defaulting(w, self, wallet_id, denom) ==
    LET out == ChainDriver_query_balance(w, value(self), value(wallet_id), value(denom))
    IN IF out.ret.ok THEN out ELSE [out EXCEPT !.ret = Ok(0)]

\* query_balance() always asking the first driver.
query_balance_first_driver(w, self, wallet_id, denom) ==
    ChainDriver_query_balance(w, "driver0", value(wallet_id), value(denom))

\* assert_eventual_wallet_amount() suppressing the driver's failure.
assert_eventual_wallet_amount_suppressing(w, self, user, target_amount, denom) ==
    LET out == ChainDriver_assert_eventual_wallet_amount(
                   w, value(self), value(user), target_amount, value(denom))
    IN [out EXCEPT !.ret = Ok(Unit)]

\* assert_eventual_wallet_amount() forwarding a target amount off by one.
assert_eventual_wallet_amount_off_by_one(w, self, user, target_amount, denom) ==
    ChainDriver_assert_eventual_wallet_amount(
        w, value(self), value(user), target_amount + 1, value(denom))

\* query_recipient_transactions() with chain id and command path exchanged.
query_recipient_transactions_swapped(w, self, recipient_address) ==
    LET driver == w.drivers[value(self)]
    IN cli_query_recipient_transactions(
           w, driver.command_path, driver.chain_id, rpc_listen_address(driver),
           value(recipient_address)[1])

\* A trait whose arguments carry a marker of their own, unrelated to the driver's.
AnyMarker(self, arg) == arg.tag \in Markers

-----------------------------------------------------------------------------
(* impl TaggedChainDriverExt<Chain> for MonoTagged<Chain, &ChainDriver> *)

\* A method that calls no collaborator.
Pure(w, ret) == [world |-> w, ret |-> ret, calls |-> <<>>]

chain_id(w, self) ==
    Pure(w, map_ref(self, [val \in DriverRefs |-> w.drivers[val].chain_id]))

tx_config(w, self) ==
    Pure(w, map_ref(self, [val \in DriverRefs |-> w.drivers[val].tx_config]))

send_tx(w, self, wallet, messages) ==
    ChainDriver_send_tx(w, value(self), value(wallet), messages)

query_balance(w, self, wallet_id, denom) ==
    ChainDriver_query_balance(w, value(self), value(wallet_id), value(denom))

assert_eventual_wallet_amount(w, self, user, target_amount, denom) ==
    ChainDriver_assert_eventual_wallet_amount(
        w, value(self), value(user), target_amount, value(denom))

query_recipient_transactions(w, self, recipient_address) ==
    LET driver == w.drivers[value(self)]
    IN cli_query_recipient_transactions(
           w, driver.chain_id, driver.command_path, rpc_listen_address(driver),
           value(recipient_address)[1])

\* The trait's methods share one type parameter Chain between &self and every
\* MonoTagged argument: a call type-checks when the markers agree.
SameMarker(self, arg) == arg.tag = self.tag

-----------------------------------------------------------------------------
(* The tagged values a test can hold *)

DriverOf == [m \in Markers |-> IF m = "A" THEN "driver0" ELSE "driver1"]

TaggedDrivers == {MonoTagged_new(m, DriverOf[m]) : m \in Markers}

TaggedWallets == {MonoTagged_new(m, wl) : m \in Markers, wl \in Wallets}

TaggedAddresses == {MonoTagged_new(m, a) : m \in Markers, a \in WalletAddresses}

TaggedDenoms == {MonoTagged_new(m, x) : m \in Markers, x \in Denoms}

-----------------------------------------------------------------------------
(* State machine *)

Init ==
    /\ world = [drivers |-> InitDrivers,
                up      |-> [c \in ChainIds |-> TRUE],
                ledger  |-> [c \in ChainIds |->
                               [a \in AddressStrings |-> [x \in Denoms |-> 0]]],
                pending |-> <<>>,
                history |-> [c \in ChainIds |-> <<>>],
                log     |-> <<>>]
    /\ taggedLog = <<>>
    /\ last = [op |-> "none"]

\* One tagged call: the world moves to the call's outcome; the test logs the
\* operation and the tagged driver, and keeps the latest call in full.
Returned(op, self, args, out) ==
    /\ Len(taggedLog) < MaxCalls
    /\ world' = out.world
    /\ taggedLog' = Append(taggedLog, <<op, self>>)
    /\ last' = [op |-> op, self |-> self, args |-> args,
                ret |-> out.ret, calls |-> out.calls]

TaggedChainId ==
    \E self \in TaggedDrivers :
        Returned("chain_id", self, <<>>, chain_id(world, self))

TaggedTxConfig ==
    \E self \in TaggedDrivers :
        Returned("tx_config", self, <<>>, tx_config(world, self))

TaggedSendTx ==
    \E self \in TaggedDrivers, wallet \in TaggedWallets, messages \in MsgLists :
        /\ SameMarker(self, wallet)
        /\ Returned("send_tx", self, [wallet |-> wallet, messages |-> messages],
                    send_tx(world, self, wallet, messages))

TaggedQueryBalance ==
    \E self \in TaggedDrivers, wallet_id \in TaggedAddresses, denom \in TaggedDenoms :
        /\ SameMarker(self, wallet_id)
        /\ SameMarker(self, denom)
        /\ Returned("query_balance", self, [wallet_id |-> wallet_id, denom |-> denom],
                    query_balance(world, self, wallet_id, denom))

TaggedAssertEventualWalletAmount ==
    \E self \in TaggedDrivers, user \in TaggedAddresses,
       target_amount \in Targets, denom \in TaggedDenoms :
        /\ SameMarker(self, user)
        /\ SameMarker(self, denom)
        /\ Returned("assert_eventual_wallet_amount", self,
                    [user |-> user, target_amount |-> target_amount, denom |-> denom],
                    assert_eventual_wallet_amount(world, self, user, target_amount, denom))

TaggedQueryRecipientTransactions ==
    \E self \in TaggedDrivers, recipient_address \in TaggedAddresses :
        /\ SameMarker(self, recipient_address)
        /\ Returned("query_recipient_transactions", self,
                    [recipient_address |-> recipient_address],
                    query_recipient_transactions(world, self, recipient_address))

\* Environment: a node stops or starts answering.
NodeFault ==
    \E c \in ChainIds :
        /\ world' = [world EXCEPT !.up[c] = ~@]
        /\ UNCHANGED <<taggedLog, last>>

\* Environment: the oldest transfer in flight settles on its destination chain.
Settle ==
    /\ world.pending # <<>>
    /\ LET m == Head(world.pending)
       IN world' = [world EXCEPT
                       !.pending = Tail(@),
                       !.ledger[m.dst][m.receiver][m.denom] = @ + m.amount,
                       !.history[m.dst] = Append(@, m)]
    /\ UNCHANGED <<taggedLog, last>>

\* Each tagged method is one collaborator call (or none) on immutable borrows
\* and the tagging layer keeps no state of its own, so the interleavings of
\* test threads are the interleavings of these calls and of the environment.
Next ==
    \/ TaggedChainId
    \/ TaggedTxConfig
    \/ TaggedSendTx
    \/ TaggedQueryBalance
    \/ TaggedAssertEventualWalletAmount
    \/ TaggedQueryRecipientTransactions
    \/ NodeFault
    \/ Settle

Spec == Init /\ [][Next]_vars

-----------------------------------------------------------------------------
(* Properties *)

DelegatingOps ==
    {"send_tx", "query_balance", "assert_eventual_wallet_amount",
     "query_recipient_transactions"}

ProjectionOps == {"chain_id", "tx_config"}

\* The step is a tagged call of an operation in ops.
Calls(ops) == taggedLog' # taggedLog /\ last'.op \in ops

TaggedDriverA == [tag |-> "A", value |-> "driver0"]

TaggedDriverB == [tag |-> "B", value |-> "driver1"]

\* C1. Delegation transparency of query_balance: a tagged query_balance on
\* tag(d) with tagged address w and denomination x has exactly the outcome of
\* d.query_balance(untag(w), untag(x)): the same balance or the same error, the
\* same call received by the driver (address first, denomination second), and
\* the result is an untagged number.
C1_DelegationTransparency ==
    [][Calls({"query_balance"}) =>
        LET direct == ChainDriver_query_balance(
                          world, last'.self.value,
                          last'.args.wallet_id.value, last'.args.denom.value)
        IN /\ last'.ret = direct.ret
           /\ last'.calls = direct.calls
           /\ world' = direct.world
           /\ last'.calls[1].args =
                  <<last'.args.wallet_id.value, last'.args.denom.value>>
           /\ DOMAIN last'.ret # {"tag", "value"}
           /\ last'.ret.ok => last'.ret.val \in Nat]_vars

\* A B-tagged query returned the balance a settled transfer credited.
C1_Witness ==
    /\ last.op = "query_balance"
    /\ last.self = TaggedDriverB
    /\ last.ret = Ok(100)

\* C2. Pass-through of assert_eventual_wallet_amount: the driver is called with
\* the unwrapped user, the target amount unchanged and the unwrapped
\* denomination, and the tagged call returns what that call returned: its
\* failure unmodified, or its success.
C2_FailurePassThrough ==
    last.op = "assert_eventual_wallet_amount" =>
        /\ Len(last.calls) = 1
        /\ last.calls[1].op = "assert_eventual_wallet_amount"
        /\ last.calls[1].driver = last.self.value
        /\ last.calls[1].args =
               <<last.args.user.value, last.args.target_amount, last.args.denom.value>>
        /\ last.ret = last.calls[1].ret

\* The driver's assertion failed on a mismatch and the tagged call returned it.
C2_Witness ==
    /\ last.op = "assert_eventual_wallet_amount"
    /\ last.ret = Err("retry: balance does not match the target amount")
    /\ last.args.target_amount = 100

\* The markers of the tagged arguments of the latest call.
ArgMarkers ==
    CASE last.op = "send_tx" -> {last.args.wallet.tag}
      [] last.op = "query_balance" -> {last.args.wallet_id.tag, last.args.denom.tag}
      [] last.op = "assert_eventual_wallet_amount" ->
             {last.args.user.tag, last.args.denom.tag}
      [] last.op = "query_recipient_transactions" -> {last.args.recipient_address.tag}
      [] OTHER -> {}

\* C3. Non-forgeability: every wallet, wallet address and denomination a tagged
\* operation was called with carries the marker of the tagged driver it was
\* called on; a call with another marker is no step of the program.
C3_NonForgeability ==
    \A marker \in ArgMarkers : marker = last.self.tag

\* An A-tagged call was made with an A-tagged wallet whose payload is also held
\* under marker B.
C3_Witness ==
    /\ last.op = "send_tx"
    /\ last.self = TaggedDriverA
    /\ last.args.wallet.tag = "A"
    /\ [tag |-> "B", value |-> last.args.wallet.value] \in TaggedWallets

\* C4. Marker preservation: chain_id() and tx_config() return a value tagged
\* with the marker of the driver they were called on, whose payload is that
\* driver's own chain_id, respectively tx_config, and no other driver's.
C4_MarkerPreservation ==
    /\ last.op = "chain_id" =>
          /\ last.ret = [tag |-> last.self.tag,
                         value |-> world.drivers[last.self.value].chain_id]
          /\ \A d \in DriverRefs \ {last.self.value} :
                 last.ret.value # world.drivers[d].chain_id
    /\ last.op = "tx_config" =>
          /\ last.ret = [tag |-> last.self.tag,
                         value |-> world.drivers[last.self.value].tx_config]
          /\ \A d \in DriverRefs \ {last.self.value} :
                 last.ret.value # world.drivers[d].tx_config

\* chain_id() on the B-tagged driver, then tx_config() on the A-tagged one.
C4_Witness ==
    /\ taggedLog = << <<"chain_id", TaggedDriverB>>, <<"tx_config", TaggedDriverA>> >>
    /\ last.op = "tx_config"
    /\ last.ret.tag = "A"

\* C5. query_recipient_transactions calls the untagged query function with the
\* driver's chain identifier, the driver's command path, the driver's RPC
\* listen address and the unwrapped recipient address string, in that order,
\* all of the driver the call was made on, and returns its result verbatim.
C5_RecipientTransactions ==
    last.op = "query_recipient_transactions" =>
        LET driver == world.drivers[last.self.value]
        IN /\ Len(last.calls) = 1
           /\ last.calls[1].op = "query_recipient_transactions"
           /\ last.calls[1].args =
                  <<driver.chain_id, driver.command_path, NodeRpc[driver.chain_id],
                    last.args.recipient_address.value[1]>>
           /\ last.ret = last.calls[1].ret

\* The B-tagged query returned the document of a transfer settled on chain B.
C5_Witness ==
    /\ last.op = "query_recipient_transactions"
    /\ last.self = TaggedDriverB
    /\ last.ret = Ok([txs |-> <<MsgToB>>])

\* C6. send_tx delegates unmodified: its outcome is that of the driver's
\* send_tx called with the unwrapped wallet and the same message list, and it
\* returns the driver's result, a failure included.
C6_SendTxDelegation ==
    [][Calls({"send_tx"}) =>
        LET direct == ChainDriver_send_tx(
                          world, last'.self.value,
                          last'.args.wallet.value, last'.args.messages)
        IN /\ last'.ret = direct.ret
           /\ last'.calls = direct.calls
           /\ world' = direct.world
           /\ last'.calls[1].args = <<last'.args.wallet.value, last'.args.messages>>]_vars

\* A send of two messages succeeded and both are in flight, in order.
C6_Witness ==
    /\ last.op = "send_tx"
    /\ last.ret = Ok(Unit)
    /\ last.args.messages = <<MsgToA, MsgToB>>
    /\ world.pending = <<MsgToA, MsgToB>>

ReceiverOf(op, self) ==
    IF op = "query_recipient_transactions"
    THEN NodeRpc[world.drivers[self.value].chain_id]
    ELSE self.value

\* C8. No retry: every send_tx, query_balance, assert_eventual_wallet_amount
\* and query_recipient_transactions makes exactly one collaborator call, also
\* after a failure, so the collaborator calls received are, in length and
\* order, the tagged calls of these operations.
C8_ExactlyOneCall ==
    LET delegating == SelectSeq(taggedLog, LAMBDA e : e[1] \in DelegatingOps)
    IN /\ Len(world.log) = Len(delegating)
       /\ \A i \in 1..Len(delegating) :
              world.log[i] = <<delegating[i][1], ReceiverOf(delegating[i][1], delegating[i][2])>>
       /\ last.op \in DelegatingOps =>
              Len(last.calls) = 1 /\ last.calls[1].op = last.op

\* Two tagged calls, the second of which failed, and two collaborator calls.
C8_Witness ==
    /\ Len(taggedLog) = 2
    /\ taggedLog[1][1] = "send_tx"
    /\ last.op = "send_tx"
    /\ ~last.ret.ok
    /\ Len(world.log) = 2

\* The latest tagged call made again in world w.
Again(w, e) ==
    CASE e.op = "send_tx" -> send_tx(w, e.self, e.args.wallet, e.args.messages)
      [] e.op = "query_balance" ->
             query_balance(w, e.self, e.args.wallet_id, e.args.denom)
      [] e.op = "assert_eventual_wallet_amount" ->
             assert_eventual_wallet_amount(
                 w, e.self, e.args.user, e.args.target_amount, e.args.denom)
      [] e.op = "query_recipient_transactions" ->
             query_recipient_transactions(w, e.self, e.args.recipient_address)

\* World w with every chain but c back in its initial condition.
OnlyChain(w, c) ==
    [w EXCEPT !.up = [x \in ChainIds |-> IF x = c THEN w.up[x] ELSE TRUE],
              !.ledger = [x \in ChainIds |->
                            IF x = c THEN w.ledger[x]
                            ELSE [a \in AddressStrings |-> [y \in Denoms |-> 0]]],
              !.history = [x \in ChainIds |-> IF x = c THEN w.history[x] ELSE <<>>]]

\* C9. Instance isolation under interleaving: in any interleaving of tagged
\* calls on the two drivers, a call through one driver's facade is received by
\* that driver (or the node at its RPC address) only, leaves the drivers and
\* the other chain's node, ledger and history unchanged, and returns what it
\* would return whatever the other chain's condition is.
C9_InstanceIsolation ==
    [][Calls(DelegatingOps) =>
        LET e == last'
            own == world.drivers[e.self.value].chain_id
        IN /\ world'.log = Append(world.log, <<e.op, ReceiverOf(e.op, e.self)>>)
           /\ \A i \in 1..Len(e.calls) :
                  IF e.op = "query_recipient_transactions"
                  THEN e.calls[i].args[3] = NodeRpc[own]
                  ELSE e.calls[i].driver = e.self.value
           /\ world'.drivers = world.drivers
           /\ \A c \in ChainIds \ {own} :
                  /\ world'.up[c] = world.up[c]
                  /\ world'.ledger[c] = world.ledger[c]
                  /\ world'.history[c] = world.history[c]
           /\ Again(OnlyChain(world, own), e).ret = e.ret]_vars

\* A call on A then a call on B that succeeded while A's node was down.
C9_Witness ==
    /\ Len(taggedLog) = 2
    /\ taggedLog[1][2] = TaggedDriverA
    /\ taggedLog[1][1] \in DelegatingOps
    /\ last.op = "query_balance"
    /\ last.self = TaggedDriverB
    /\ last.ret.ok
    /\ ~world.up["ibc-0"]

\* C10. chain_id() and tx_config() are pure projections: they return a tagged
\* value (there is no failure outcome), make no collaborator call and leave
\* the world - drivers, chains and the collaborators' log - unchanged.
C10_PureProjection ==
    [][Calls(ProjectionOps) =>
        /\ world' = world
        /\ last'.calls = <<>>
        /\ DOMAIN last'.ret = {"tag", "value"}]_vars

\* A projection made after a send whose transfers are in flight.
C10_Witness ==
    /\ Len(taggedLog) = 2
    /\ taggedLog[1][1] = "send_tx"
    /\ last.op = "chain_id"
    /\ world.pending # <<>>
    /\ Len(world.log) = 1

====
